---------------------------- MODULE Spec2Model ----------------------------
(***************************************************************************)
(* Model of src/main.rs: the HTTP ingestion handler (handle_http), which   *)
(* replaces the shared GameState and pushes detected events onto the       *)
(* shared next_event vector, and the render thread (do_lights), which      *)
(* drains next_event into its overlay slots and composes and writes one    *)
(* frame per loop iteration.                                               *)
(*                                                                         *)
(* Times are integer milliseconds.  Option<T> is a sequence of length 0    *)
(* (None) or 1 (Some).  An untyped serde_json::Value is a record           *)
(* [kind, s, n, o].  A colour channel and an alpha are integer             *)
(* thousandths (1.0 is 1000); the strip has StripLen pixels.               *)
(***************************************************************************)
EXTENDS Integers, Sequences, FiniteSets, TLC

VARIABLES
    state,        \* Arc<Mutex<GameState>>: the stored snapshot
    state_aw,     \* what active_weapon() returns for the stored snapshot
    state_lock,   \* holder of the GameState mutex: "none", a handler, "render"
    poisoned,     \* the GameState mutex is poisoned (a holder panicked)
    next_event,   \* Arc<Mutex<Vec<EventType>>>
    queue_lock,   \* holder of the next_event mutex: "none", a handler, "render"
    hpc,          \* handle_http: position of each request context
    hbody,        \* handle_http: the request body read by each context
    haw,          \* handle_http: what active_weapon() returns for this body
    htodo,        \* handle_http: pushes still to be executed by each context
    hpanic,       \* handle_http: the detection panics after the last push
    hpushed,      \* handle_http: events pushed so far by the current call
    rpc,          \* do_lights: position in the loop body
    time_now,     \* do_lights: time_now of the current iteration
    last_event,   \* do_lights: Option<Event>
    kill_event,   \* do_lights: Option<Event>
    mvp,          \* do_lights: mvp
    knife_start,  \* do_lights: knife_start
    frame,        \* do_lights: the layers composed into cols this iteration
    cols,         \* do_lights: cols, the pixels of the strip
    bytes,        \* as_bytes: the bytes returned for the frame
    wire,         \* instructions written to the serial port this iteration
    clock,        \* Instant::now()
    appended,     \* history: every event pushed, in push order
    drained,      \* history: every event returned by a drain, in order
    ncalls        \* history: number of requests received

vars == <<state, state_aw, state_lock, poisoned, next_event, queue_lock, hpc, hbody,
          haw, htodo, hpanic, hpushed, rpc, time_now, last_event, kill_event, mvp,
          knife_start, frame, cols, bytes, wire, clock, appended, drained, ncalls>>

hvars == <<hpc, hbody, haw, htodo, hpanic, hpushed>>
rvars == <<rpc, time_now, last_event, kill_event, mvp, knife_start, frame, cols,
           bytes, wire>>

-----------------------------------------------------------------------------
(* Bounds *)

MaxClock == 5000
TickStep == 1000
MaxCalls == 2
StripLen == 3
MaxLayers == 2

Handlers == {"h1", "h2"}

-----------------------------------------------------------------------------
(* Option and serde_json::Value *)

None == <<>>
Some(v) == <<v>>
IsSome(o) == Len(o) = 1
IsNone(o) == Len(o) = 0
Unwrap(o) == o[1]

\* serde_json::Value: a string, a number or an object (a map from keys to
\* Values, here a function whose domain is the set of keys present)
JStr(s) == [kind |-> "str", s |-> s, n |-> 0, o |-> <<>>]
JNum(n) == [kind |-> "num", s |-> "", n |-> n, o |-> <<>>]
JObj(o) == [kind |-> "obj", s |-> "", n |-> 0, o |-> o]

\* Value::get(key): None on a missing key and on a Value that is no object
Get(v, key) ==
    IF v.kind = "obj" /\ key \in DOMAIN v.o THEN Some(v.o[key]) ELSE None

\* HashMap::get(key)
MapGet(m, key) == IF key \in DOMAIN m THEN Some(m[key]) ELSE None

\* Value::as_str, Value::as_i64, Value::as_f64: None unless the kind fits.
\* Numbers are integers here, so as_i64 and as_f64 agree; the model's
\* numbers stay far inside i32, so "as i32" changes nothing.
as_str(v) == IF v.kind = "str" THEN Some(v.s) ELSE None
as_i64(v) == IF v.kind = "num" THEN Some(v.n) ELSE None
as_f64(v) == IF v.kind = "num" THEN Some(v.n) ELSE None

\* impl PartialEq<&str> for Value
ValueEqStr(v, s) == v.kind = "str" /\ v.s = s

-----------------------------------------------------------------------------
(* GameState *)

WeaponKeys == {"weapon_0", "weapon_1"}

Weapon(st, ty, clip, clipmax) ==
    [state |-> st, type |-> ty, ammo_clip |-> clip, ammo_clip_max |-> clipmax]

RoundState(phase, win_team) == [phase |-> phase, win_team |-> win_team]

PlayerState(health, armor, flashed) ==
    [health |-> health, armor |-> armor, flashed |-> flashed]

MatchStats(kills, mvps) == [kills |-> kills, mvps |-> mvps]

Player(steamid, st, stats, weapons) ==
    [steamid |-> steamid, state |-> st, match_stats |-> stats,
     weapons |-> weapons]

MapState(round_wins) == [round_wins |-> round_wins]

\* impl Default for GameState
DefaultGameState ==
    [map |-> None, player |-> None, round |-> None, previously |-> None]

\* GameState::active_weapon: the first weapon in HashMap iteration order
\* whose state is "active" or "reloading".  The iteration order of a
\* std HashMap is unspecified, so any such weapon can be the one returned;
\* ActiveWeapons is the set of possible results (keys), empty for None.
ActiveWeapons(gs) ==
    IF IsNone(gs.player) THEN {}
    ELSE IF IsNone(Unwrap(gs.player).weapons) THEN {}
    ELSE LET weapons == Unwrap(Unwrap(gs.player).weapons)
         IN  {k \in WeaponKeys :
                 /\ IsSome(weapons[k])
                 /\ Unwrap(weapons[k]).state \in {"active", "reloading"}}

active_weapon(gs) ==
    IF ActiveWeapons(gs) = {} THEN {None}
    ELSE {Some(k) : k \in ActiveWeapons(gs)}

WeaponOf(gs, k) == Unwrap(Unwrap(Unwrap(gs.player).weapons)[k])

-----------------------------------------------------------------------------
(* handle_http: the detection rules.  A rule yields the events it pushes  *)
(* and whether it then panics (an unwrap() of None).                      *)

Ok(ev) == [ev |-> ev, panic |-> FALSE]
Panic(ev) == [ev |-> ev, panic |-> TRUE]

\* sequential composition: nothing runs after a panic
Then(r1, r2) ==
    IF r1.panic THEN r1 ELSE [ev |-> r1.ev \o r2.ev, panic |-> r2.panic]

\* lines 327-333: the ammo_clip comparison
ShootRule(w, prev_weapon) ==
    IF IsNone(w.ammo_clip) THEN Ok(<<>>)
    ELSE LET prev_ammo == Get(prev_weapon, "ammo_clip")
         IN  IF IsNone(prev_ammo) THEN Ok(<<>>)
             ELSE IF IsNone(as_i64(Unwrap(prev_ammo))) THEN Panic(<<>>)
             ELSE IF Unwrap(w.ammo_clip) < Unwrap(as_i64(Unwrap(prev_ammo)))
                  THEN Ok(<<"Shoot">>)
                  ELSE Ok(<<>>)

\* mutant of WeaponRule: SwitchWeapon does not suppress the clip comparison
WeaponRuleNoSuppress(gs, prev_player, aw) ==
    IF IsNone(aw) THEN Ok(<<>>)
    ELSE LET k == Unwrap(aw)
             w == WeaponOf(gs, k)
             prev_weapons == Get(prev_player, "weapons")
         IN  IF IsNone(prev_weapons) THEN Ok(<<>>)
             ELSE LET prev_weapon == Get(Unwrap(prev_weapons), k)
                  IN  IF IsNone(prev_weapon) THEN Ok(<<>>)
                      ELSE LET prev_state == Get(Unwrap(prev_weapon), "state")
                           IN  IF /\ IsSome(prev_state)
                                  /\ ValueEqStr(Unwrap(prev_state), "holstered")
                               THEN Then(Ok(<<"SwitchWeapon">>),
                                         ShootRule(w, Unwrap(prev_weapon)))
                               ELSE ShootRule(w, Unwrap(prev_weapon))

\* lines 314-337: SwitchWeapon, else Shoot
WeaponRule(gs, prev_player, aw) ==
    IF IsNone(aw) THEN Ok(<<>>)
    ELSE LET k == Unwrap(aw)
             w == WeaponOf(gs, k)
             prev_weapons == Get(prev_player, "weapons")
         IN  IF IsNone(prev_weapons) THEN Ok(<<>>)
             ELSE LET prev_weapon == Get(Unwrap(prev_weapons), k)
                  IN  IF IsNone(prev_weapon) THEN Ok(<<>>)
                      ELSE LET prev_state == Get(Unwrap(prev_weapon), "state")
                           IN  IF /\ IsSome(prev_state)
                                  /\ ValueEqStr(Unwrap(prev_state), "holstered")
                               THEN Ok(<<"SwitchWeapon">>)
                               ELSE ShootRule(w, Unwrap(prev_weapon))

\* lines 339-347
DeathRule(player, prev_player) ==
    LET prev_state == Get(prev_player, "state")
    IN  IF IsNone(prev_state) \/ IsNone(player.state) THEN Ok(<<>>)
        ELSE LET st == Unwrap(player.state)
                 prev_health == Get(Unwrap(prev_state), "health")
             IN  IF IsNone(prev_health) THEN Ok(<<>>)
                 ELSE IF st.health # 0 THEN Ok(<<>>)
                 ELSE IF IsNone(as_f64(Unwrap(prev_health))) THEN Panic(<<>>)
                 ELSE IF Unwrap(as_f64(Unwrap(prev_health))) # 0
                      THEN Ok(<<"Death">>)
                      ELSE Ok(<<>>)

\* lines 351-355
MvpRule(stats, prev_stats) ==
    LET prev_mvps == Get(prev_stats, "mvps")
    IN  IF IsNone(prev_mvps) THEN Ok(<<>>)
        ELSE IF IsNone(as_i64(Unwrap(prev_mvps))) THEN Panic(<<>>)
        ELSE IF stats.mvps > Unwrap(as_i64(Unwrap(prev_mvps)))
             THEN Ok(<<"MVP">>)
             ELSE Ok(<<>>)

\* lines 357-369
KillRule(gs, stats, prev_stats, aw) ==
    LET prev_kills == Get(prev_stats, "kills")
    IN  IF IsNone(prev_kills) THEN Ok(<<>>)
        ELSE IF IsNone(as_i64(Unwrap(prev_kills))) THEN Panic(<<>>)
        ELSE IF stats.kills > Unwrap(as_i64(Unwrap(prev_kills)))
             THEN IF IsSome(aw) /\ WeaponOf(gs, Unwrap(aw)).type = "Knife"
                  THEN Ok(<<"KnifeKill">>)
                  ELSE Ok(<<"Kill">>)
             ELSE Ok(<<>>)

\* lines 349-371
StatsRule(gs, player, prev_player, aw) ==
    LET prev_stats == Get(prev_player, "match_stats")
    IN  IF IsNone(prev_stats) \/ IsNone(player.match_stats) THEN Ok(<<>>)
        ELSE Then(MvpRule(Unwrap(player.match_stats), Unwrap(prev_stats)),
                  KillRule(gs, Unwrap(player.match_stats), Unwrap(prev_stats), aw))

\* mutant of SteamidGuard: a differing steamid does not stop the rules
SteamidGuardOff(player, prev_player) ==
    LET prev_steamid == Get(prev_player, "steamid")
    IN  IF IsNone(prev_steamid) THEN Some(TRUE)
        ELSE IF IsNone(as_str(Unwrap(prev_steamid))) THEN None
        ELSE Some(TRUE)

\* line 313: the identity guard; None stands for the panic of
\* as_str().unwrap() on a steamid that is no string
SteamidGuard(player, prev_player) ==
    LET prev_steamid == Get(prev_player, "steamid")
    IN  IF IsNone(prev_steamid) THEN Some(TRUE)
        ELSE IF IsNone(as_str(Unwrap(prev_steamid))) THEN None
        ELSE Some(Unwrap(as_str(Unwrap(prev_steamid))) = player.steamid)

\* lines 310-374: the player-scoped rules
PlayerRules(gs, map, aw) ==
    IF IsNone(gs.player) \/ IsNone(MapGet(map, "player")) THEN Ok(<<>>)
    ELSE LET player == Unwrap(gs.player)
             prev_player == Unwrap(MapGet(map, "player"))
             guard == SteamidGuard(player, prev_player)
         IN  IF IsNone(guard) THEN Panic(<<>>)
             ELSE IF ~Unwrap(guard) THEN Ok(<<>>)
             ELSE Then(WeaponRule(gs, prev_player, aw),
                  Then(DeathRule(player, prev_player),
                       StatsRule(gs, player, prev_player, aw)))

\* lines 376-384
RoundRule(gs, map) ==
    IF IsNone(gs.round) \/ IsNone(MapGet(map, "round")) THEN Ok(<<>>)
    ELSE LET round == Unwrap(gs.round)
             prev_phase == Get(Unwrap(MapGet(map, "round")), "phase")
         IN  IF IsNone(prev_phase) THEN Ok(<<>>)
             ELSE IF round.phase # "freezetime" THEN Ok(<<>>)
             ELSE IF IsNone(as_str(Unwrap(prev_phase))) THEN Panic(<<>>)
             ELSE IF Unwrap(as_str(Unwrap(prev_phase))) = "over"
                  THEN Ok(<<"NewRound">>)
                  ELSE Ok(<<>>)

\* mutant of detect: a snapshot without previous values is diffed against
\* an empty round, so that freezetime counts as a new round
detectAbsentAsChange(gs, aw) ==
    IF IsNone(gs.previously)
    THEN IF IsSome(gs.round) /\ Unwrap(gs.round).phase = "freezetime"
         THEN Ok(<<"NewRound">>)
         ELSE Ok(<<>>)
    ELSE Then(PlayerRules(gs, Unwrap(gs.previously), aw),
              RoundRule(gs, Unwrap(gs.previously)))

\* lines 309-385: everything handle_http does after installing the snapshot
detect(gs, aw) ==
    IF IsNone(gs.previously) THEN Ok(<<>>)
    ELSE Then(PlayerRules(gs, Unwrap(gs.previously), aw),
              RoundRule(gs, Unwrap(gs.previously)))

-----------------------------------------------------------------------------
(* Request bodies *)

Body(gs) == [wellformed |-> TRUE, gs |-> gs]

\* a body serde_json::from_reader rejects (bad syntax, or a document that
\* does not fit the GameState schema)
Malformed == [wellformed |-> FALSE, gs |-> DefaultGameState]

\* a JSON object with the keys whose value is present
Field(key, o) == IF IsSome(o) THEN key :> Unwrap(o) ELSE <<>>

SteamId == "A"

\* previously.player.steamid: absent, same, another player, not a string
SteamidCases == {None, Some(JStr("A")), Some(JStr("B")), Some(JNum(7))}

Rifle(st, clip) == Weapon(st, "Rifle", Some(clip), Some(30))
Knife(st) == Weapon(st, "Knife", None, None)
Weapons(w0, w1) == Some([k \in WeaponKeys |-> IF k = "weapon_0" THEN w0 ELSE w1])
PrevWeapon(st, clip) == JObj(Field("state", st) @@ Field("ammo_clip", clip))
PrevWeapons(w0, w1) == Some(JObj(Field("weapon_0", w0) @@ Field("weapon_1", w1)))

\* <<player.weapons, previously.player.weapons>>
WeaponCases ==
    LET rifle == Weapons(Some(Rifle("active", 1)), None)
        knife == Weapons(Some(Knife("active")), None)
        two   == Weapons(Some(Knife("active")), Some(Rifle("reloading", 1)))
        away  == Weapons(Some(Rifle("holstered", 1)), None)
        hol2  == Some(PrevWeapon(Some(JStr("holstered")), Some(JNum(2))))
        any2  == Some(PrevWeapon(None, Some(JNum(2))))
        act2  == Some(PrevWeapon(Some(JStr("active")), Some(JNum(2))))
        act1  == Some(PrevWeapon(Some(JStr("active")), Some(JNum(1))))
        actx  == Some(PrevWeapon(Some(JStr("active")), Some(JStr("x"))))
        hol   == Some(PrevWeapon(Some(JStr("holstered")), None))
    IN  { <<None, None>>, <<None, PrevWeapons(hol2, None)>>,
          <<rifle, None>>, <<rifle, PrevWeapons(hol2, None)>>,
          <<rifle, PrevWeapons(any2, None)>>, <<rifle, PrevWeapons(act2, None)>>,
          <<rifle, PrevWeapons(act1, None)>>, <<rifle, PrevWeapons(actx, None)>>,
          <<rifle, PrevWeapons(None, hol2)>>,
          <<knife, PrevWeapons(any2, None)>>, <<knife, PrevWeapons(hol, None)>>,
          <<two, None>>, <<two, PrevWeapons(hol, any2)>>,
          <<away, PrevWeapons(hol2, None)>> }

PrevHealth(h) == Some(JObj(Field("health", h)))

\* <<player.state, previously.player.state>>
HealthCases ==
    LET dead  == Some(PlayerState(0, 0, 0))
        alive == Some(PlayerState(100, 50, 0))
    IN  { <<None, PrevHealth(Some(JNum(100)))>>,
          <<dead, None>>, <<dead, PrevHealth(None)>>,
          <<dead, PrevHealth(Some(JNum(100)))>>, <<dead, PrevHealth(Some(JNum(0)))>>,
          <<dead, PrevHealth(Some(JStr("x")))>>,
          <<alive, PrevHealth(Some(JNum(100)))>>,
          <<alive, PrevHealth(Some(JStr("x")))>> }

PrevStats(kills, mvps) == Some(JObj(Field("kills", kills) @@ Field("mvps", mvps)))

\* <<player.match_stats, previously.player.match_stats>>
StatsCases ==
    LET now == Some(MatchStats(1, 1))
    IN  { <<None, PrevStats(Some(JNum(0)), Some(JNum(0)))>>,
          <<now, None>>,
          <<now, PrevStats(Some(JNum(0)), Some(JNum(0)))>>,
          <<now, PrevStats(Some(JNum(0)), None)>>,
          <<now, PrevStats(None, Some(JNum(0)))>>,
          <<now, PrevStats(Some(JNum(1)), Some(JNum(1)))>>,
          <<now, PrevStats(Some(JStr("x")), Some(JNum(0)))>>,
          <<now, PrevStats(Some(JNum(0)), Some(JStr("x")))>> }

PrevRound(phase) == Some(JObj(Field("phase", phase)))

\* <<round, previously.round>>
RoundCases ==
    LET freeze == Some(RoundState("freezetime", None))
        live   == Some(RoundState("live", None))
    IN  { <<None, PrevRound(Some(JStr("over")))>>,
          <<freeze, None>>, <<freeze, PrevRound(None)>>,
          <<freeze, PrevRound(Some(JStr("over")))>>,
          <<freeze, PrevRound(Some(JStr("live")))>>,
          <<freeze, PrevRound(Some(JNum(3)))>>,
          <<live, PrevRound(Some(JStr("over")))>> }

\* the snapshot assembled from one case of every section
MkGameState(sid, wc, hc, sc, rc) ==
    [map |-> None,
     player |-> Some(Player(SteamId, hc[1], sc[1], wc[1])),
     round |-> rc[1],
     previously |-> Some(
         Field("player", Some(JObj(Field("steamid", sid) @@ Field("weapons", wc[2])
                                   @@ Field("state", hc[2])
                                   @@ Field("match_stats", sc[2]))))
         @@ Field("round", rc[2]))]

FullBodies ==
    { Body(MkGameState(sid, wc, hc, sc, rc)) :
        sid \in SteamidCases, wc \in WeaponCases, hc \in HealthCases,
        sc \in StatsCases, rc \in RoundCases }

\* the same snapshots with the previous-values tree absent, empty, without
\* a player, holding a player that is no object, and with no current player
ShapeBodies ==
    LET base == { MkGameState(Some(JStr("A")), wc, hc, sc,
                              <<Some(RoundState("freezetime", None)),
                                PrevRound(Some(JStr("over")))>>) :
                    wc \in WeaponCases, hc \in HealthCases, sc \in StatsCases }
    IN  UNION { { Body([gs EXCEPT !.previously = None]),
                  Body([gs EXCEPT !.previously = Some(<<>>)]),
                  Body([gs EXCEPT !.previously =
                          Some(Field("round", PrevRound(Some(JStr("over")))))]),
                  Body([gs EXCEPT !.previously =
                          Some(Field("player", Some(JStr("x"))))]),
                  Body([gs EXCEPT !.player = None]) } : gs \in base }

DetectBodies == FullBodies \cup ShapeBodies \cup {Malformed}

\* The requests of the concurrent specification: snapshots of a live match
\* (map present) that make the detector push each kind of event.
NoWeapons == <<None, None>>
NoHealth == <<None, None>>
NoStats == <<None, None>>
NoRound == <<Some(RoundState("live", None)), None>>
InMatch(gs) == Body([gs EXCEPT !.map = Some(MapState(None))])

\* kills 0 -> 1 with the Knife active: KnifeKill
KnifeKillBody ==
    InMatch(MkGameState(None, <<Weapons(Some(Knife("active")), None), None>>,
                        NoHealth,
                        <<Some(MatchStats(1, 0)), PrevStats(Some(JNum(0)), None)>>,
                        NoRound))

\* mvps 0 -> 1 and over -> freezetime in one snapshot: MVP, NewRound
MvpNewRoundBody ==
    InMatch(MkGameState(None, NoWeapons, NoHealth,
                        <<Some(MatchStats(0, 1)), PrevStats(None, Some(JNum(0)))>>,
                        <<Some(RoundState("freezetime", None)),
                          PrevRound(Some(JStr("over")))>>))

\* mvps 0 -> 1 while the round is over: MVP
MvpBody ==
    InMatch(MkGameState(None, NoWeapons, NoHealth,
                        <<Some(MatchStats(0, 1)), PrevStats(None, Some(JNum(0)))>>,
                        <<Some(RoundState("over", Some("CT"))), None>>))

\* clip 2 -> 1 and health 100 -> 0: Shoot, Death
ShootDeathBody ==
    InMatch(MkGameState(Some(JStr("A")),
                        <<Weapons(Some(Rifle("active", 1)), None),
                          PrevWeapons(Some(PrevWeapon(None, Some(JNum(2)))), None)>>,
                        <<Some(PlayerState(0, 0, 0)), PrevHealth(Some(JNum(100)))>>,
                        NoStats, NoRound))

\* over -> freezetime with a previous clip that is no number: the weapon
\* rule panics before the round rule is reached
BadClipNewRoundBody ==
    InMatch(MkGameState(None,
                        <<Weapons(Some(Rifle("active", 1)), None),
                          PrevWeapons(Some(PrevWeapon(None, Some(JStr("x")))), None)>>,
                        NoHealth, NoStats,
                        <<Some(RoundState("freezetime", None)),
                          PrevRound(Some(JStr("over")))>>))

\* a firearm in live play whose ammo_clip_max is absent
NoClipMaxBody ==
    InMatch(MkGameState(None,
                        <<Weapons(Some(Weapon("active", "Pistol", Some(1), None)), None),
                          None>>,
                        <<Some(PlayerState(100, 50, 0)), None>>, NoStats, NoRound))

Bodies == {KnifeKillBody, MvpNewRoundBody, MvpBody, ShootDeathBody,
           BadClipNewRoundBody, NoClipMaxBody, Malformed}

-----------------------------------------------------------------------------
(* handle_http *)

\* lines 295-302: the request body has been read
Receive(h, bodies) ==
    /\ hpc[h] = "idle"
    /\ ncalls < MaxCalls
    /\ \E b \in bodies : hbody' = [hbody EXCEPT ![h] = b]
    /\ hpc' = [hpc EXCEPT ![h] = "received"]
    /\ ncalls' = ncalls + 1
    /\ UNCHANGED <<state, state_aw, state_lock, poisoned, next_event, queue_lock, haw, htodo, hpanic,
                   hpushed, rvars, clock, appended, drained>>

\* line 306: state.lock().unwrap() on a poisoned mutex panics; the guard
\* inside the error is dropped at once
LockPoisoned(h) ==
    /\ hpc[h] = "received"
    /\ state_lock = "none"
    /\ poisoned
    /\ hpc' = [hpc EXCEPT ![h] = "lock_failed"]
    /\ UNCHANGED <<state, state_aw, state_lock, poisoned, next_event, queue_lock, hbody, haw, htodo,
                   hpanic, hpushed, rvars, clock, appended, drained, ncalls>>

\* mutant of ParseFail: a malformed body installs the default snapshot
ParseFailDefault(h) ==
    /\ hpc[h] = "received"
    /\ state_lock = "none"
    /\ ~poisoned
    /\ ~hbody[h].wellformed
    /\ state' = DefaultGameState
    /\ state_aw' = None
    /\ hpc' = [hpc EXCEPT ![h] = "parse_failed"]
    /\ UNCHANGED <<state_lock, poisoned, next_event, queue_lock, hbody, haw, htodo, hpanic,
                   hpushed, rvars, clock, appended, drained, ncalls>>

\* lines 306-307: from_reader(..).unwrap() panics on a malformed body before
\* *guard is assigned; the guard is dropped by the unwinding, which poisons
\* the mutex
ParseFail(h) ==
    /\ hpc[h] = "received"
    /\ state_lock = "none"
    /\ ~poisoned
    /\ ~hbody[h].wellformed
    /\ poisoned' = TRUE
    /\ hpc' = [hpc EXCEPT ![h] = "parse_failed"]
    /\ UNCHANGED <<state, state_aw, state_lock, next_event, queue_lock, hbody, haw, htodo, hpanic,
                   hpushed, rvars, clock, appended, drained, ncalls>>

\* mutant of Install: the snapshot is replaced without waiting for the lock
InstallUnlocked(h) ==
    /\ hpc[h] = "received"
    /\ ~poisoned
    /\ hbody[h].wellformed
    /\ state' = hbody[h].gs
    /\ state_lock' = h
    /\ \E aw \in active_weapon(hbody[h].gs) :
          /\ haw' = [haw EXCEPT ![h] = aw]
          /\ state_aw' = aw
          /\ htodo' = [htodo EXCEPT ![h] = detect(hbody[h].gs, aw).ev]
          /\ hpanic' = [hpanic EXCEPT ![h] = detect(hbody[h].gs, aw).panic]
    /\ hpc' = [hpc EXCEPT ![h] = "locked"]
    /\ UNCHANGED <<poisoned, next_event, queue_lock, hbody, hpushed, rvars, clock,
                   appended, drained, ncalls>>

\* lines 306-307: the snapshot is replaced under the lock; the detection
\* of lines 309-385 reads only the new snapshot, so the pushes it will make
\* are fixed here and executed one by one by Push
Install(h) ==
    /\ hpc[h] = "received"
    /\ state_lock = "none"
    /\ ~poisoned
    /\ hbody[h].wellformed
    /\ state' = hbody[h].gs
    /\ state_lock' = h
    /\ \E aw \in active_weapon(hbody[h].gs) :
          /\ haw' = [haw EXCEPT ![h] = aw]
          /\ state_aw' = aw
          /\ htodo' = [htodo EXCEPT ![h] = detect(hbody[h].gs, aw).ev]
          /\ hpanic' = [hpanic EXCEPT ![h] = detect(hbody[h].gs, aw).panic]
    /\ hpc' = [hpc EXCEPT ![h] = "locked"]
    /\ UNCHANGED <<poisoned, next_event, queue_lock, hbody, hpushed, rvars, clock,
                   appended, drained, ncalls>>

\* mutant of push: the event is put at the front of the vector
push_front(q, e) == <<e>> \o q

\* next_event.lock().unwrap().push(e)
push(q, e) == Append(q, e)

\* one next_event.lock().unwrap().push(..) of lines 319-380: the queue
\* mutex is taken, the event pushed and the mutex released
Push(h) ==
    /\ hpc[h] = "locked"
    /\ htodo[h] # <<>>
    /\ queue_lock = "none"
    /\ next_event' = push(next_event, Head(htodo[h]))
    /\ appended' = Append(appended, Head(htodo[h]))
    /\ hpushed' = [hpushed EXCEPT ![h] = Append(@, Head(htodo[h]))]
    /\ htodo' = [htodo EXCEPT ![h] = Tail(@)]
    /\ UNCHANGED <<state, state_aw, state_lock, poisoned, queue_lock, hpc, hbody, haw,
                   hpanic, rvars, clock, drained, ncalls>>

\* line 387: the guard is dropped, at the end of the block or by a panic of
\* the detection, which poisons the mutex
Finish(h) ==
    /\ hpc[h] = "locked"
    /\ htodo[h] = <<>>
    /\ state_lock' = "none"
    /\ poisoned' = (poisoned \/ hpanic[h])
    /\ hpc' = [hpc EXCEPT ![h] = IF hpanic[h] THEN "panicked" ELSE "done"]
    /\ UNCHANGED <<state, state_aw, next_event, queue_lock, hbody, haw, htodo, hpanic, hpushed,
                   rvars, clock, appended, drained, ncalls>>

\* lines 389-390: the response is returned (or the task of a panicked call
\* ends) and the context is free for the next request
Return(h) ==
    /\ hpc[h] \in {"done", "panicked", "parse_failed", "lock_failed"}
    /\ hpc' = [hpc EXCEPT ![h] = "idle"]
    /\ hbody' = [hbody EXCEPT ![h] = Malformed]
    /\ haw' = [haw EXCEPT ![h] = None]
    /\ htodo' = [htodo EXCEPT ![h] = <<>>]
    /\ hpanic' = [hpanic EXCEPT ![h] = FALSE]
    /\ hpushed' = [hpushed EXCEPT ![h] = <<>>]
    /\ UNCHANGED <<state, state_aw, state_lock, poisoned, next_event, queue_lock, rvars, clock,
                   appended, drained, ncalls>>

-----------------------------------------------------------------------------
(* do_lights *)

\* lines 444-451: one event folded into the overlay slots
fold_event(ov, e, now) ==
    CASE e = "SwitchWeapon" -> [ov EXCEPT !.knife_start = now]
      [] e = "MVP" -> [ov EXCEPT !.mvp = TRUE]
      [] e = "NewRound" -> [ov EXCEPT !.mvp = FALSE]
      [] e \in {"Shoot", "Death", "Kill"} -> [ov EXCEPT !.last_event = Some(<<e, now>>)]
      [] e = "KnifeKill" -> [ov EXCEPT !.kill_event = Some(<<e, now>>)]
      [] OTHER -> ov

\* lines 442-452: the events of the queue folded in queue order
RECURSIVE fold_events(_, _, _)
fold_events(ov, q, now) ==
    IF q = <<>> THEN ov
    ELSE fold_events(fold_event(ov, Head(q), now), Tail(q), now)

\* mutant of drain_rest: the queue is read but not emptied
drain_rest_keep(q) == q

\* Vec::drain(..) under the next_event lock: what is returned, what is left
drain_result(q) == q
drain_rest(q) == <<>>

\* lines 439-453: now and time_now are taken and the queue is drained
\* under its lock
RenderDrain ==
    /\ rpc = "drain"
    /\ queue_lock = "none"
    /\ time_now' = clock
    /\ LET ov == fold_events([knife_start |-> knife_start, mvp |-> mvp,
                              last_event |-> last_event, kill_event |-> kill_event],
                             drain_result(next_event), clock)
       IN  /\ knife_start' = ov.knife_start
           /\ mvp' = ov.mvp
           /\ last_event' = ov.last_event
           /\ kill_event' = ov.kill_event
    /\ drained' = drained \o drain_result(next_event)
    /\ next_event' = drain_rest(next_event)
    /\ wire' = <<>>
    /\ rpc' = "compose"
    /\ UNCHANGED <<state, state_aw, state_lock, poisoned, queue_lock, hvars, frame, cols,
                   bytes, clock, appended, ncalls>>

Max(a, b) == IF a > b THEN a ELSE b

Layer(op, col, alpha) == [op |-> op, col |-> col, alpha |-> alpha]

(* Color *)

\* struct Color(f32, f32, f32): a channel is an integer number of
\* thousandths, so 1.0 is 1000; an alpha is in thousandths as well
Color(r, g, b) == <<r, g, b>>

Min(a, b) == IF a < b THEN a ELSE b

\* x.max(0.).min(1.)
Clamp01(x) == Min(Max(x, 0), 1000)

\* mutant of Mul: the product is not clamped
MulUnclamped(alpha, value) ==
    Color((value[1] * alpha) \div 1000, (value[2] * alpha) \div 1000,
          (value[3] * alpha) \div 1000)

\* impl Mul<Color> for f32 (lines 44-49)
Mul(alpha, value) ==
    Color(Clamp01((value[1] * alpha) \div 1000),
          Clamp01((value[2] * alpha) \div 1000),
          Clamp01((value[3] * alpha) \div 1000))

\* impl Add<Color> for Color (lines 51-56)
Add(self, value) ==
    Color(Clamp01(self[1] + value[1]), Clamp01(self[2] + value[2]),
          Clamp01(self[3] + value[3]))

\* the % of Rust: the remainder has the sign of the dividend
Rem(a, b) == IF a >= 0 THEN a % b ELSE 0 - ((0 - a) % b)

\* Color::from_hue (lines 17-37); hue in thousandths of a turn
from_hue(hue0) ==
    LET hue == 6 * Rem(Rem(hue0, 1000) + 1000, 1000)
    IN  IF hue < 1000 THEN Color(1000, hue, 0)
        ELSE IF hue < 2000 THEN Color(1000 - (hue - 1000), 1000, 0)
        ELSE IF hue < 3000 THEN Color(0, 1000, hue - 2000)
        ELSE IF hue < 4000 THEN Color(0, 1000 - (hue - 3000), 1000)
        ELSE IF hue < 5000 THEN Color(hue - 4000, 0, 1000)
        ELSE Color(1000, 0, 1000 - (hue - 5000))

\* clear (lines 244-248)
clear(cs) == [i \in DOMAIN cs |-> Color(0, 0, 0)]

\* fill (lines 250-254)
fill(cs, col, alpha) ==
    [i \in DOMAIN cs |-> Add(Mul(1000 - alpha, cs[i]), Mul(alpha, col))]

\* BlendMode::blend (lines 262-270)
blend(mode, prev, new, alpha) ==
    CASE mode = "Replace" -> Mul(alpha, new)
      [] mode = "Mix" -> Add(Mul(1000 - alpha, prev), Mul(alpha, new))
      [] mode = "Add" -> Add(prev, Mul(alpha, new))

\* f32::floor(x) as usize and f32::ceil(x) as usize, x in thousandths: the
\* cast saturates, so a negative value gives 0
FloorAsUsize(x) == Max(x \div 1000, 0)
CeilAsUsize(x) == Max(0 - ((0 - x) \div 1000), 0)

\* draw_line (lines 272-280); from and to in thousandths of a pixel; pixel
\* i of the code (counted from 0) is cs[i + 1]
draw_line(cs, from, to, col, mode) ==
    LET lo == Max(FloorAsUsize(from), 0)
        hi == Min(CeilAsUsize(to), Len(cs))
        amt(i) == Min(Max((i + 1) * 1000 - from, 0), 1000)
                  + Min(Max(to - i * 1000, 0), 1000) - 1000
    IN  [k \in DOMAIN cs |->
            IF lo <= k - 1 /\ k - 1 < hi
            THEN blend(mode, cs[k], col, amt(k - 1))
            ELSE cs[k]]

\* do_rainbow (lines 393-399); time and cycle_time in milliseconds
do_rainbow(cs, time, cycle_time, alpha) ==
    LET cycle == Rem(Rem((time * 1000) \div cycle_time, 1000) + 1000, 1000)
        len == Len(cs)
    IN  [k \in DOMAIN cs |->
            Add(Mul(1000 - alpha, cs[k]),
                Mul(alpha, from_hue(cycle - ((k - 1) * 1000) \div len)))]

\* mutant of as_byte_color: the bytes in the order red, green, blue
as_byte_color_swapped(c) ==
    LET AsU8(x) == IF x < 0 THEN 0 ELSE Min(x \div 1000, 255)
    IN  <<AsU8(c[2] * 255), AsU8(c[1] * 255), AsU8(c[3] * 255)>>

\* Color::as_byte_color (lines 39-41): "as u8" truncates toward zero and
\* saturates at 0 and 255
as_byte_color(c) ==
    LET AsU8(x) == IF x < 0 THEN 0 ELSE Min(x \div 1000, 255)
    IN  <<AsU8(c[1] * 255), AsU8(c[2] * 255), AsU8(c[3] * 255)>>

\* ColorFormat::GRB.as_bytes (lines 63-78): g, r, b pushed per colour
RECURSIVE as_bytes(_)
as_bytes(colors) ==
    IF colors = <<>> THEN <<>>
    ELSE LET rgb == as_byte_color(Head(colors))
         IN  <<rgb[2], rgb[1], rgb[3]>> \o as_bytes(Tail(colors))

\* the colour literals of do_lights, by the name the layers carry
ColorOf(name) ==
    CASE name = "COLOR_CT" -> Color(100, 300, 1000)
      [] name = "COLOR_T" -> Color(1000, 500, 100)
      [] name = "knife_red" -> Color(200, 0, 0)
      [] name = "c4_amber" -> Color(100, 100, 0)
      [] name = "red" -> Color(500, 0, 0)
      [] name = "green" -> Color(0, 500, 0)
      [] name = "blue" -> Color(0, 0, 500)
      [] name = "shoot" -> Color(1000, 1000, 250)
      [] name = "death" -> Color(1000, 0, 0)
      [] name = "kill" -> Color(1000, 1000, 0)
      [] name = "white" -> Color(1000, 1000, 1000)

\* wins[..].starts_with("ct_") over the round results of the model
StartsWithCt(s) == s \in {"ct_win_elimination", "ct_win_defuse", "ct_win_time"}

\* the drawing call a layer stands for, applied to cols; n is the number
\* of entries of round_wins
paint(cs, layer, now, n) ==
    CASE layer.op = "clear" -> clear(cs)
      [] layer.op = "fill" -> fill(cs, ColorOf(layer.col), layer.alpha)
      [] layer.op = "rainbow" -> do_rainbow(cs, now, 1000, layer.alpha)
      [] layer.op = "line_add" ->
            draw_line(cs, 0, layer.alpha, ColorOf(layer.col), "Add")
      [] layer.op = "line_mix" ->
            draw_line(cs, (layer.alpha * StripLen * 1000) \div n, StripLen * 1000,
                      ColorOf(IF StartsWithCt(layer.col) THEN "COLOR_CT" ELSE "COLOR_T"),
                      "Mix")

\* wins.len() as a frame shows it: one Mix line per entry of round_wins
NumLines(layers) == Cardinality({i \in DOMAIN layers : layers[i].op = "line_mix"})

\* the drawing calls of one iteration, in order
RECURSIVE paint_all(_, _, _, _)
paint_all(cs, layers, now, n) ==
    IF layers = <<>> THEN cs
    ELSE paint_all(paint(cs, Head(layers), now, n), Tail(layers), now, n)

\* lines 482-492: the Knife pulse, alpha in thousandths
KnifeAmt(knife_time) ==
    LET cycle == knife_time % 1321
    IN  IF cycle < 250 THEN 500 - cycle * 2
        ELSE IF cycle < 500 THEN 500 - cycle
        ELSE 0

\* lines 494-502: the C4 pulse, alpha in thousandths
C4Amt(knife_time) ==
    LET phase == knife_time % 250
        tri == IF phase < 125 THEN phase * 8 ELSE 2000 - phase * 8
    IN  (tri * 3) \div 4 + 250

\* lines 479-518: the live-play layer; panic is the unwrap() of an absent
\* ammo_clip_max on line 505
WeaponLayer(gs, aw, now, kstart) ==
    IF IsNone(gs.player) \/ IsNone(aw) THEN Ok(<<>>)
    ELSE LET player == Unwrap(gs.player)
             w == WeaponOf(gs, Unwrap(aw))
         IN  IF w.type = "Knife"
             THEN Ok(<<Layer("fill", "knife_red", KnifeAmt(now - kstart))>>)
             ELSE IF w.type = "C4"
             THEN Ok(<<Layer("fill", "c4_amber", C4Amt(now - kstart))>>)
             ELSE IF IsNone(w.ammo_clip) \/ IsNone(player.state) THEN Ok(<<>>)
             ELSE IF IsNone(w.ammo_clip_max) THEN Panic(<<>>)
             ELSE Ok(<<Layer("line_add", "red",
                             (StripLen * 1000 * Unwrap(w.ammo_clip))
                                \div Unwrap(w.ammo_clip_max)),
                       Layer("line_add", "green",
                             StripLen * 10 * Unwrap(player.state).health),
                       Layer("line_add", "blue",
                             StripLen * 10 * Unwrap(player.state).armor)>>)

\* mutant of BaseLayer: the map section does not gate the layers that do
\* not read it
BaseLayerAnyMap(gs, aw, is_mvp, now, kstart) ==
    IF IsNone(gs.round) THEN Ok(<<>>)
    ELSE LET round == Unwrap(gs.round)
         IN  IF round.phase = "freezetime"
             THEN IF IsNone(gs.map) \/ IsNone(Unwrap(gs.map).round_wins) THEN Ok(<<>>)
                  ELSE Ok([i \in 1..Len(Unwrap(Unwrap(gs.map).round_wins)) |->
                            Layer("line_mix", Unwrap(Unwrap(gs.map).round_wins)[i], i - 1)])
             ELSE IF is_mvp THEN Ok(<<Layer("rainbow", "mvp", 1000)>>)
             ELSE IF IsSome(round.win_team)
             THEN Ok(<<Layer("fill", IF Unwrap(round.win_team) = "CT"
                                     THEN "COLOR_CT" ELSE "COLOR_T", 1000)>>)
             ELSE WeaponLayer(gs, aw, now, kstart)

\* lines 459-521: clear and the base layer
BaseLayer(gs, aw, is_mvp, now, kstart) ==
    IF IsNone(gs.map) \/ IsNone(gs.round) THEN Ok(<<>>)
    ELSE LET map == Unwrap(gs.map)
             round == Unwrap(gs.round)
         IN  IF round.phase = "freezetime"
             THEN IF IsNone(map.round_wins) THEN Ok(<<>>)
                  ELSE Ok([i \in 1..Len(Unwrap(map.round_wins)) |->
                            Layer("line_mix", Unwrap(map.round_wins)[i], i - 1)])
             ELSE IF is_mvp THEN Ok(<<Layer("rainbow", "mvp", 1000)>>)
             ELSE IF IsSome(round.win_team)
             THEN Ok(<<Layer("fill", IF Unwrap(round.win_team) = "CT"
                                     THEN "COLOR_CT" ELSE "COLOR_T", 1000)>>)
             ELSE WeaponLayer(gs, aw, now, kstart)

\* lines 523-547: what the last_event overlay draws
LastEventLayer(le, now) ==
    IF IsNone(le) THEN <<>>
    ELSE LET event == Unwrap(le)[1]
             since == now - Unwrap(le)[2]
         IN  CASE event = "Shoot" -> <<Layer("fill", "shoot", Max(1000 - since * 8, 0))>>
               [] event = "Death" -> <<Layer("clear", "", 0),
                                       Layer("fill", "death", Max(1000 - since \div 4, 0))>>
               [] event = "Kill" -> <<Layer("fill", "kill", Max(1000 - since, 0))>>
               [] OTHER -> <<>>

\* lines 528-543: last_event after its own expiry test
LastEventExpiry(le, now) ==
    IF IsNone(le) THEN le
    ELSE LET event == Unwrap(le)[1]
             since == now - Unwrap(le)[2]
         IN  IF \/ event = "Shoot" /\ since > 125
                \/ event = "Death" /\ since > 4000
                \/ event = "Kill" /\ since > 1000
             THEN None ELSE le

\* lines 549-560: what the kill_event overlay draws
KillEventLayer(ke, now) ==
    IF IsNone(ke) THEN <<>>
    ELSE <<Layer("rainbow", "knifekill", Max(2000 - (now - Unwrap(ke)[2]) \div 2, 0))>>

\* lines 554-556: the expiry test of the KnifeKill overlay; the slot it
\* clears is last_event
KillEventExpiry(slots, now) ==
    IF IsSome(slots.kill_event) /\ now - Unwrap(slots.kill_event)[2] > 1000
    THEN [slots EXCEPT !.last_event = None]
    ELSE slots

\* lines 562-568
FlashLayer(gs) ==
    IF /\ IsSome(gs.player)
       /\ IsSome(Unwrap(gs.player).state)
       /\ Unwrap(Unwrap(gs.player).state).flashed > 0
    THEN <<Layer("fill", "white", (Unwrap(Unwrap(gs.player).state).flashed * 1000) \div 255)>>
    ELSE <<>>

\* line 456: state.lock().unwrap() on a poisoned mutex ends the thread
RenderLockPoisoned ==
    /\ rpc = "compose"
    /\ state_lock = "none"
    /\ poisoned
    /\ rpc' = "dead"
    /\ UNCHANGED <<state, state_aw, state_lock, poisoned, next_event, queue_lock, hvars,
                   time_now, last_event, kill_event, mvp, knife_start, frame, cols, bytes,
                   wire, clock, appended, drained, ncalls>>

\* lines 455-569: the frame is composed under the GameState lock
RenderCompose ==
    /\ rpc = "compose"
    /\ state_lock = "none"
    /\ ~poisoned
    /\ ~BaseLayer(state, state_aw, mvp, time_now, knife_start).panic
    /\ frame' = <<Layer("clear", "", 0)>>
                  \o BaseLayer(state, state_aw, mvp, time_now, knife_start).ev
                  \o LastEventLayer(last_event, time_now)
                  \o KillEventLayer(kill_event, time_now)
                  \o FlashLayer(state)
    /\ cols' = paint_all(cols, frame', time_now, NumLines(frame'))
    /\ LET slots == KillEventExpiry(
                        [last_event |-> LastEventExpiry(last_event, time_now),
                         kill_event |-> kill_event], time_now)
       IN  /\ last_event' = slots.last_event
           /\ kill_event' = slots.kill_event
    /\ rpc' = "set_pixels"
    /\ UNCHANGED <<state, state_aw, state_lock, poisoned, next_event, queue_lock, hvars,
                   time_now, mvp, knife_start, bytes, wire, clock, appended,
                   drained, ncalls>>

\* line 505: the unwrap() of an absent ammo_clip_max panics under the
\* GameState lock: the mutex is poisoned and the thread ends
RenderComposePanic ==
    /\ rpc = "compose"
    /\ state_lock = "none"
    /\ ~poisoned
    /\ BaseLayer(state, state_aw, mvp, time_now, knife_start).panic
    /\ poisoned' = TRUE
    /\ rpc' = "dead"
    /\ UNCHANGED <<state, state_aw, state_lock, next_event, queue_lock, hvars, time_now,
                   last_event, kill_event, mvp, knife_start, frame, cols, bytes,
                   wire, clock,                   appended, drained, ncalls>>

\* line 570: Instruction::SetPixels(&cols).write(s).unwrap(): the header
\* [4, 0] and then ColorFormat::GRB.as_bytes(cols) are written (lines
\* 105-109); bytes keeps the payload until the Show of the iteration
RenderSetPixels ==
    /\ rpc = "set_pixels"
    /\ bytes' = as_bytes(cols)
    /\ wire' = Append(wire, "SetPixels")
    /\ rpc' = "show"
    /\ UNCHANGED <<state, state_aw, state_lock, poisoned, next_event, queue_lock, hvars,
                   time_now, last_event, kill_event, mvp, knife_start, frame, cols,
                   clock, appended, drained, ncalls>>

\* line 571: Instruction::Show.write(s).unwrap(), then the next iteration;
\* cols is not read again before clear() on line 459, the payload of the
\* SetPixels is not read again at all
RenderShow ==
    /\ rpc = "show"
    /\ wire' = Append(wire, "Show")
    /\ frame' = <<>>
    /\ cols' = clear(cols)
    /\ bytes' = <<>>
    /\ rpc' = "drain"
    /\ UNCHANGED <<state, state_aw, state_lock, poisoned, next_event, queue_lock, hvars,
                   time_now, last_event, kill_event, mvp, knife_start,
                   clock, appended, drained, ncalls>>

\* mutant of RenderWriteFail: the error of the write is dropped and the
\* loop goes on
RenderWriteFailIgnored ==
    /\ rpc \in {"set_pixels", "show"}
    /\ rpc' = IF rpc = "set_pixels" THEN "show" ELSE "drain"
    /\ UNCHANGED <<state, state_aw, state_lock, poisoned, next_event, queue_lock, hvars,
                   time_now, last_event, kill_event, mvp, knife_start, frame, cols, bytes,
                   wire, clock, appended, drained, ncalls>>

\* lines 570-571: a write to the serial port fails (an I/O error or the
\* 100 ms timeout) and unwrap() ends the thread
RenderWriteFail ==
    /\ rpc \in {"set_pixels", "show"}
    /\ rpc' = "dead"
    /\ UNCHANGED <<state, state_aw, state_lock, poisoned, next_event, queue_lock, hvars,
                   time_now, last_event, kill_event, mvp, knife_start, frame, cols, bytes,
                   wire, clock, appended, drained, ncalls>>

\* the monotonic clock read by Instant::now() advances
Tick ==
    /\ clock + TickStep <= MaxClock
    /\ clock' = clock + TickStep
    /\ UNCHANGED <<state, state_aw, state_lock, poisoned, next_event, queue_lock, hvars,
                   rvars, appended, drained, ncalls>>

-----------------------------------------------------------------------------
(* Specifications *)

\* main: GameState::default() and an empty Vec are shared; do_lights starts
\* with empty overlay slots (lines 418-436, 603-604)
Init ==
    /\ state = DefaultGameState
    /\ state_aw = None
    /\ state_lock = "none"
    /\ poisoned = FALSE
    /\ next_event = <<>>
    /\ queue_lock = "none"
    /\ hpc = [h \in Handlers |-> "idle"]
    /\ hbody = [h \in Handlers |-> Malformed]
    /\ haw = [h \in Handlers |-> None]
    /\ htodo = [h \in Handlers |-> <<>>]
    /\ hpanic = [h \in Handlers |-> FALSE]
    /\ hpushed = [h \in Handlers |-> <<>>]
    /\ rpc = "drain"
    /\ time_now = 0
    /\ last_event = None
    /\ kill_event = None
    /\ mvp = FALSE
    /\ knife_start = 0
    /\ frame = <<>>
    /\ cols = [i \in 1..StripLen |-> Color(0, 0, 1000)]
    /\ bytes = <<>>
    /\ wire = <<>>
    /\ clock = 0
    /\ appended = <<>>
    /\ drained = <<>>
    /\ ncalls = 0

Next ==
    \/ \E h \in Handlers :
          \/ Receive(h, Bodies)
          \/ LockPoisoned(h)
          \/ ParseFail(h)
          \/ Install(h)
          \/ Push(h)
          \/ Finish(h)
          \/ Return(h)
    \/ RenderDrain
    \/ RenderLockPoisoned
    \/ RenderCompose
    \/ RenderComposePanic
    \/ RenderSetPixels
    \/ RenderShow
    \/ RenderWriteFail
    \/ Tick

Spec == Init /\ [][Next]_vars

\* The detector alone: one request, drawn from DetectBodies, has been read
\* by one context and is handled with nothing else running.
InitDetect ==
    /\ state = DefaultGameState
    /\ state_aw = None
    /\ state_lock = "none"
    /\ poisoned = FALSE
    /\ next_event = <<>>
    /\ queue_lock = "none"
    /\ hpc = [h \in Handlers |-> IF h = "h1" THEN "received" ELSE "idle"]
    /\ \E b \in DetectBodies :
          hbody = [h \in Handlers |-> IF h = "h1" THEN b ELSE Malformed]
    /\ haw = [h \in Handlers |-> None]
    /\ htodo = [h \in Handlers |-> <<>>]
    /\ hpanic = [h \in Handlers |-> FALSE]
    /\ hpushed = [h \in Handlers |-> <<>>]
    /\ rpc = "drain"
    /\ time_now = 0
    /\ last_event = None
    /\ kill_event = None
    /\ mvp = FALSE
    /\ knife_start = 0
    /\ frame = <<>>
    /\ cols = [i \in 1..StripLen |-> Color(0, 0, 1000)]
    /\ bytes = <<>>
    /\ wire = <<>>
    /\ clock = 0
    /\ appended = <<>>
    /\ drained = <<>>
    /\ ncalls = 1

NextDetect ==
    \E h \in Handlers : ParseFail(h) \/ Install(h) \/ Push(h) \/ Finish(h)

SpecDetect == InitDetect /\ [][NextDetect]_vars

\* Two requests with the same body, drawn from DetectBodies, have been read
\* by the two contexts.
InitTwice ==
    /\ state = DefaultGameState
    /\ state_aw = None
    /\ state_lock = "none"
    /\ poisoned = FALSE
    /\ next_event = <<>>
    /\ queue_lock = "none"
    /\ hpc = [h \in Handlers |-> "received"]
    /\ \E b \in DetectBodies : hbody = [h \in Handlers |-> b]
    /\ haw = [h \in Handlers |-> None]
    /\ htodo = [h \in Handlers |-> <<>>]
    /\ hpanic = [h \in Handlers |-> FALSE]
    /\ hpushed = [h \in Handlers |-> <<>>]
    /\ rpc = "drain"
    /\ time_now = 0
    /\ last_event = None
    /\ kill_event = None
    /\ mvp = FALSE
    /\ knife_start = 0
    /\ frame = <<>>
    /\ cols = [i \in 1..StripLen |-> Color(0, 0, 1000)]
    /\ bytes = <<>>
    /\ wire = <<>>
    /\ clock = 0
    /\ appended = <<>>
    /\ drained = <<>>
    /\ ncalls = 2

NextTwice ==
    \E h \in Handlers :
        LockPoisoned(h) \/ ParseFail(h) \/ Install(h) \/ Push(h) \/ Finish(h)

SpecTwice == InitTwice /\ [][NextTwice]_vars

-----------------------------------------------------------------------------
(* Vocabulary of the claims about the detector *)

\* the call of context h has run the detection to its end or to a panic
Detected(h) == hpc[h] \in {"done", "panicked"}

Count(e, seq) == Cardinality({i \in DOMAIN seq : seq[i] = e})

RECURSIVE Walk(_, _)
Walk(v, path) ==
    IF path = <<>> THEN Some(v)
    ELSE IF IsNone(Get(v, Head(path))) THEN None
    ELSE Walk(Unwrap(Get(v, Head(path))), Tail(path))

\* the node of the previous-values tree at a path, None when absent
Prev(gs, path) ==
    IF IsNone(gs.previously) THEN None
    ELSE Walk(JObj(Unwrap(gs.previously)), path)

IsNum(o) == IsSome(o) /\ Unwrap(o).kind = "num"

\* previously.player.steamid is present and differs from player.steamid
SteamidMismatch(gs) ==
    /\ IsSome(Prev(gs, <<"player", "steamid">>))
    /\ \/ IsNone(gs.player)
       \/ Unwrap(Prev(gs, <<"player", "steamid">>)) # JStr(Unwrap(gs.player).steamid)

PlayerEvents == {"SwitchWeapon", "Shoot", "Death", "MVP", "Kill", "KnifeKill"}

-----------------------------------------------------------------------------
(* C1 *)

\* C1: a KnifeKill taken into kill_event at time t is cleared from the slot
\* by the first iteration whose time_now - t exceeds 1 s: once such an
\* iteration has composed its frame, kill_event is empty.
C1_KnifeKillSlotExpires ==
    (rpc = "set_pixels" /\ IsSome(kill_event)) =>
        time_now - Unwrap(kill_event)[2] <= 1000

\* what the code does instead: a filled kill_event slot is never emptied
C1_KnifeKillSlotIsKept ==
    [][IsSome(kill_event) => IsSome(kill_event')]_vars

-----------------------------------------------------------------------------
(* C2 *)

\* C2: in every interleaving of pushes and drains, the events drained so
\* far followed by the events still queued are exactly the events pushed so
\* far, in push order: the drains return a prefix of the pushes; nothing is
\* lost, duplicated or returned twice.
C2_ExactlyOnceFifo == appended = drained \o next_event

\* a second call is between two of its pushes, its first event queued,
\* after a drain has returned events of an earlier call
C2_Witness ==
    \E h \in Handlers :
        /\ hpc[h] = "locked"
        /\ hpushed[h] # <<>>
        /\ htodo[h] # <<>>
        /\ drained # <<>>
        /\ next_event # <<>>

-----------------------------------------------------------------------------
(* C3 *)

InMalformedCall(h) ==
    /\ hpc[h] \in {"received", "parse_failed", "lock_failed"}
    /\ ~hbody[h].wellformed

\* C3: no step of a call with a malformed body changes the stored snapshot
\* or the queue: both are after the call what they were before it.
C3_MalformedNoMutation ==
    [][\A h \in Handlers :
          (InMalformedCall(h) /\ hpc'[h] # hpc[h]) =>
              (state' = state /\ next_event' = next_event)]_vars

\* a malformed call has been rejected while a snapshot is stored and an
\* event is queued
C3_Witness ==
    \E h \in Handlers :
        /\ hpc[h] = "parse_failed"
        /\ ~hbody[h].wellformed
        /\ state # DefaultGameState
        /\ next_event # <<>>

-----------------------------------------------------------------------------
(* C4 *)

\* round.phase is "freezetime" and previously.round.phase is "over"
RoundRestarted(gs) ==
    /\ IsSome(gs.round)
    /\ Unwrap(gs.round).phase = "freezetime"
    /\ Prev(gs, <<"round", "phase">>) = Some(JStr("over"))

\* C4: a call that installed a snapshot in freezetime whose previous phase
\* is "over" has pushed one NewRound by the time it ends, after any MVP of
\* the same call.
C4_NewRoundEnqueued ==
    \A h \in Handlers :
        (Detected(h) /\ RoundRestarted(hbody[h].gs)) =>
            /\ Count("NewRound", hpushed[h]) = 1
            /\ hpushed[h][Len(hpushed[h])] = "NewRound"

\* the same for the calls that returned normally
C4_NewRoundEnqueuedByCompletedCalls ==
    \A h \in Handlers :
        (hpc[h] = "done" /\ RoundRestarted(hbody[h].gs)) =>
            /\ Count("NewRound", hpushed[h]) = 1
            /\ hpushed[h][Len(hpushed[h])] = "NewRound"

\* the render half of C4: a drain that returns a NewRound with no MVP
\* behind it leaves mvp false
C4_DrainedNewRoundClearsMvp ==
    [][(rpc = "drain" /\ rpc' = "compose"
        /\ \E i \in DOMAIN next_event :
              /\ next_event[i] = "NewRound"
              /\ \A j \in DOMAIN next_event : j > i => next_event[j] # "MVP")
       => mvp' = FALSE]_vars

-----------------------------------------------------------------------------
(* C5 *)

\* what the weapon rule is to emit for active weapon key k of snapshot gs
WeaponExpected(gs, k) ==
    LET w == WeaponOf(gs, k)
        prev_state == Prev(gs, <<"player", "weapons", k, "state">>)
        prev_ammo == Prev(gs, <<"player", "weapons", k, "ammo_clip">>)
    IN  IF IsSome(prev_state) /\ Unwrap(prev_state) = JStr("holstered")
        THEN "SwitchWeapon"
        ELSE IF /\ IsSome(w.ammo_clip)
                /\ IsNum(prev_ammo)
                /\ Unwrap(w.ammo_clip) < Unwrap(prev_ammo).n
             THEN "Shoot"
             ELSE "neither"

-----------------------------------------------------------------------------
(* C6 *)

\* C6: a call whose previous values hold a steamid that differs from the
\* current one pushes no player-scoped event, whatever the other fields
\* say; only NewRound can be pushed.
C6_IdentityGuard ==
    \A h \in Handlers :
        (Detected(h) /\ SteamidMismatch(hbody[h].gs)) =>
            \A i \in DOMAIN hpushed[h] : hpushed[h][i] \notin PlayerEvents

\* a finished call of another player's snapshot in which the kills rose,
\* the health fell to 0 and the clip decreased, and which pushed NewRound only
C6_Witness ==
    \E h \in Handlers :
        /\ hpc[h] = "done"
        /\ Prev(hbody[h].gs, <<"player", "steamid">>) = Some(JStr("B"))
        /\ Prev(hbody[h].gs, <<"player", "match_stats", "kills">>) = Some(JNum(0))
        /\ Prev(hbody[h].gs, <<"player", "state", "health">>) = Some(JNum(100))
        /\ Prev(hbody[h].gs, <<"player", "weapons", "weapon_0", "ammo_clip">>)
              = Some(JNum(2))
        /\ haw[h] = Some("weapon_0")
        /\ Unwrap(hbody[h].gs.player).state = Some(PlayerState(0, 0, 0))
        /\ Unwrap(hbody[h].gs.player).match_stats = Some(MatchStats(1, 1))
        /\ hpushed[h] = <<"NewRound">>

-----------------------------------------------------------------------------
(* C7 *)

\* the kills rose: both values present, the previous one a number below
KillsRose(gs) ==
    /\ IsSome(gs.player)
    /\ IsSome(Unwrap(gs.player).match_stats)
    /\ IsNum(Prev(gs, <<"player", "match_stats", "kills">>))
    /\ Unwrap(Unwrap(gs.player).match_stats).kills
          > Unwrap(Prev(gs, <<"player", "match_stats", "kills">>)).n

\* C7: without a steamid mismatch, a call in which the kills rose pushes
\* exactly one kill event, KnifeKill when the active weapon is a Knife and
\* Kill otherwise (no active weapon included), never both; a call in which
\* they did not rise, or the previous kills are absent, pushes neither.
C7_KillRule ==
    \A h \in Handlers :
        (Detected(h) /\ ~SteamidMismatch(hbody[h].gs)) =>
            LET gs == hbody[h].gs
                knife == IsSome(haw[h]) /\ WeaponOf(gs, Unwrap(haw[h])).type = "Knife"
            IN  /\ Count("KnifeKill", hpushed[h])
                      = (IF KillsRose(gs) /\ knife THEN 1 ELSE 0)
                /\ Count("Kill", hpushed[h])
                      = (IF KillsRose(gs) /\ ~knife THEN 1 ELSE 0)

\* the same for the calls that returned normally
C7_KillRuleOfCompletedCalls ==
    \A h \in Handlers :
        (hpc[h] = "done" /\ ~SteamidMismatch(hbody[h].gs)) =>
            LET gs == hbody[h].gs
                knife == IsSome(haw[h]) /\ WeaponOf(gs, Unwrap(haw[h])).type = "Knife"
            IN  /\ Count("KnifeKill", hpushed[h])
                      = (IF KillsRose(gs) /\ knife THEN 1 ELSE 0)
                /\ Count("Kill", hpushed[h])
                      = (IF KillsRose(gs) /\ ~knife THEN 1 ELSE 0)

-----------------------------------------------------------------------------
(* C8 *)

\* current health is 0 and the previous health is present, a number and
\* non-zero
HealthFell(gs) ==
    /\ IsSome(gs.player)
    /\ IsSome(Unwrap(gs.player).state)
    /\ Unwrap(Unwrap(gs.player).state).health = 0
    /\ IsNum(Prev(gs, <<"player", "state", "health">>))
    /\ Unwrap(Prev(gs, <<"player", "state", "health">>)).n # 0

\* C8: without a steamid mismatch, a call pushes exactly one Death if the
\* current health is 0 and the previous health is present and non-zero,
\* and no Death otherwise.
C8_DeathRule ==
    \A h \in Handlers :
        (Detected(h) /\ ~SteamidMismatch(hbody[h].gs)) =>
            Count("Death", hpushed[h]) = (IF HealthFell(hbody[h].gs) THEN 1 ELSE 0)

\* the same for the calls that returned normally
C8_DeathRuleOfCompletedCalls ==
    \A h \in Handlers :
        (hpc[h] = "done" /\ ~SteamidMismatch(hbody[h].gs)) =>
            Count("Death", hpushed[h]) = (IF HealthFell(hbody[h].gs) THEN 1 ELSE 0)

-----------------------------------------------------------------------------
(* C9 *)

NoPrevious(gs) == IsNone(gs.previously) \/ gs.previously = Some(<<>>)

\* C9: a call whose snapshot has no previous-values tree, or an empty one,
\* pushes no event, whatever the snapshot holds.
C9_NoPreviousNoEvent ==
    \A h \in Handlers :
        (hpc[h] \in {"locked", "done", "panicked"} /\ NoPrevious(hbody[h].gs)) =>
            /\ hpushed[h] = <<>>
            /\ htodo[h] = <<>>
            /\ next_event = <<>>
    /\ queue_lock = "none"

\* a call that returned without pushing for a snapshot in freezetime of a
\* dead player with kills, mvps and an active weapon, and no previous values
C9_Witness ==
    \E h \in Handlers :
        /\ hpc[h] = "done"
        /\ NoPrevious(hbody[h].gs)
        /\ state = hbody[h].gs
        /\ Unwrap(state.round).phase = "freezetime"
        /\ Unwrap(state.player).state = Some(PlayerState(0, 0, 0))
        /\ Unwrap(state.player).match_stats = Some(MatchStats(1, 1))
        /\ haw[h] = Some("weapon_0")
        /\ hpushed[h] = <<>>

-----------------------------------------------------------------------------
(* C10 *)

\* position of an event in the rule order
RuleRank(e) ==
    CASE e \in {"SwitchWeapon", "Shoot"} -> 1
      [] e = "Death" -> 2
      [] e = "MVP" -> 3
      [] e \in {"Kill", "KnifeKill"} -> 4
      [] e = "NewRound" -> 5

\* C10: two calls with the same body push the same event list, and the
\* events of a call are in the rule order SwitchWeapon-or-Shoot, Death,
\* MVP, Kill-or-KnifeKill, NewRound.
C10_Deterministic ==
    /\ \A h \in Handlers : \A i, j \in DOMAIN hpushed[h] :
          i < j => RuleRank(hpushed[h][i]) < RuleRank(hpushed[h][j])
    /\ \A g, h \in Handlers :
          (Detected(g) /\ Detected(h) /\ hbody[g] = hbody[h]) =>
              hpushed[g] = hpushed[h]

\* the rule order alone
C10_RuleOrder ==
    \A h \in Handlers : \A i, j \in DOMAIN hpushed[h] :
        i < j => RuleRank(hpushed[h][i]) < RuleRank(hpushed[h][j])

-----------------------------------------------------------------------------
(* C11 *)

\* C11: detection never raises: whatever the previous-values tree holds
\* (strings, numbers, nested maps, absent fields), no call ends in a panic.
C11_DetectionNeverRaises ==
    \A h \in Handlers : hpc[h] # "panicked"

\* what does hold: a call panics only where a previous value that a rule
\* unwraps is present with a type the rule does not expect
IllTyped(gs) ==
    \/ \E p \in {<<"player", "steamid">>, <<"round", "phase">>} :
          IsSome(Prev(gs, p)) /\ Unwrap(Prev(gs, p)).kind # "str"
    \/ \E p \in {<<"player", "state", "health">>,
                 <<"player", "match_stats", "kills">>,
                 <<"player", "match_stats", "mvps">>} :
          IsSome(Prev(gs, p)) /\ Unwrap(Prev(gs, p)).kind # "num"
    \/ \E k \in WeaponKeys :
          /\ IsSome(Prev(gs, <<"player", "weapons", k, "ammo_clip">>))
          /\ Unwrap(Prev(gs, <<"player", "weapons", k, "ammo_clip">>)).kind # "num"

C11_PanicOnlyOnIllTypedPrevious ==
    \A h \in Handlers : hpc[h] = "panicked" => IllTyped(hbody[h].gs)

-----------------------------------------------------------------------------
(* C12 *)

\* C12: a render tick never fails because an optional snapshot field is
\* absent: an iteration that reaches the GameState lock while the mutex is
\* sound composes its frame; it does not end the thread.
C12_TickSurvivesAbsentField ==
    [][(rpc = "compose" /\ ~poisoned) => rpc' # "dead"]_vars

\* what does hold: the composition fails on exactly one absent field, the
\* ammo_clip_max of an active firearm whose ammo_clip is present, in live
\* play with the player's state present
ClipMaxMissing(gs, aw) ==
    /\ IsSome(gs.map) /\ IsSome(gs.round) /\ IsSome(gs.player) /\ IsSome(aw)
    /\ Unwrap(gs.round).phase # "freezetime"
    /\ IsNone(Unwrap(gs.round).win_team)
    /\ IsSome(Unwrap(gs.player).state)
    /\ WeaponOf(gs, Unwrap(aw)).type \notin {"Knife", "C4"}
    /\ IsSome(WeaponOf(gs, Unwrap(aw)).ammo_clip)
    /\ IsNone(WeaponOf(gs, Unwrap(aw)).ammo_clip_max)

C12_TickFailsOnlyOnMissingClipMax ==
    [][(rpc = "compose" /\ ~poisoned /\ rpc' = "dead")
          => (~mvp /\ ClipMaxMissing(state, state_aw))]_vars

-----------------------------------------------------------------------------
(* The render loop alone *)

\* Snapshots for the composition: every combination of the map, round and
\* player sections being absent or present, each round phase with and
\* without a winning team, each kind of active weapon.
MapCases ==
    {None, Some(MapState(None)),
     Some(MapState(Some(<<"ct_win_elimination", "t_win_bomb">>)))}

RoundStates ==
    {None} \cup { Some(RoundState(p, w)) : p \in {"freezetime", "live", "over"},
                                           w \in {None, Some("CT"), Some("T")} }

PlayerCases ==
    {None} \cup
    { Some(Player(SteamId, st, None, ws)) :
        st \in {None, Some(PlayerState(100, 50, 0)), Some(PlayerState(100, 50, 255))},
        ws \in {None,
                Weapons(Some(Knife("active")), None),
                Weapons(Some(Weapon("active", "C4", None, None)), None),
                Weapons(Some(Rifle("active", 15)), None),
                Weapons(Some(Weapon("active", "Pistol", Some(1), None)), None)} }

RenderSnapshots ==
    { [map |-> m, player |-> p, round |-> r, previously |-> None] :
        m \in MapCases, p \in PlayerCases, r \in RoundStates }

\* do_lights runs over a stored snapshot with mvp set or not; no request
\* arrives and the overlay slots are empty.
InitRender ==
    /\ \E gs \in RenderSnapshots : \E aw \in active_weapon(gs) :
          state = gs /\ state_aw = aw
    /\ state_lock = "none"
    /\ poisoned = FALSE
    /\ next_event = <<>>
    /\ queue_lock = "none"
    /\ hpc = [h \in Handlers |-> "idle"]
    /\ hbody = [h \in Handlers |-> Malformed]
    /\ haw = [h \in Handlers |-> None]
    /\ htodo = [h \in Handlers |-> <<>>]
    /\ hpanic = [h \in Handlers |-> FALSE]
    /\ hpushed = [h \in Handlers |-> <<>>]
    /\ rpc = "drain"
    /\ time_now = 0
    /\ last_event = None
    /\ kill_event = None
    /\ mvp \in BOOLEAN
    /\ knife_start = 0
    /\ frame = <<>>
    /\ cols = [i \in 1..StripLen |-> Color(0, 0, 1000)]
    /\ bytes = <<>>
    /\ wire = <<>>
    /\ clock = 0
    /\ appended = <<>>
    /\ drained = <<>>
    /\ ncalls = 0

NextRender ==
    \/ RenderDrain
    \/ RenderCompose
    \/ RenderComposePanic
    \/ RenderSetPixels
    \/ RenderShow
    \/ Tick

SpecRender == InitRender /\ [][NextRender]_vars

-----------------------------------------------------------------------------
(* C13 *)

\* the frame of this iteration has been composed
Composed == rpc = "set_pixels"

\* the layers between clear() and the overlays, while both overlay slots
\* are empty
BaseOfFrame == SubSeq(frame, 2, Len(frame) - Len(FlashLayer(state)))

TeamFill(team) ==
    <<Layer("fill", IF team = "CT" THEN "COLOR_CT" ELSE "COLOR_T", 1000)>>

WeaponCols == {"knife_red", "c4_amber", "red", "green", "blue"}

\* C13 as stated: outside freezetime the base layer is the rainbow when mvp
\* is set and else the fill of the winning team when there is one,
\* whichever other sections of the snapshot are present.
C13_BasePriorityAnyMap ==
    (Composed /\ IsSome(state.round) /\ Unwrap(state.round).phase # "freezetime") =>
        /\ mvp => BaseOfFrame = <<Layer("rainbow", "mvp", 1000)>>
        /\ (~mvp /\ IsSome(Unwrap(state.round).win_team)) =>
              BaseOfFrame = TeamFill(Unwrap(Unwrap(state.round).win_team))

\* C13 amended: with the map or the round section absent the base layer is
\* empty (the strip stays black); with both present it is the round-win
\* history in freezetime, else the rainbow when mvp is set, else the fill
\* of the winning team, else the layer of the active weapon.
C13_BasePriority ==
    Composed =>
        IF IsNone(state.map) \/ IsNone(state.round) THEN BaseOfFrame = <<>>
        ELSE IF Unwrap(state.round).phase = "freezetime"
        THEN /\ \A i \in DOMAIN BaseOfFrame : BaseOfFrame[i].op = "line_mix"
             /\ Len(BaseOfFrame) =
                   IF IsNone(Unwrap(state.map).round_wins) THEN 0
                   ELSE Len(Unwrap(Unwrap(state.map).round_wins))
        ELSE IF mvp THEN BaseOfFrame = <<Layer("rainbow", "mvp", 1000)>>
        ELSE IF IsSome(Unwrap(state.round).win_team)
        THEN BaseOfFrame = TeamFill(Unwrap(Unwrap(state.round).win_team))
        ELSE \A i \in DOMAIN BaseOfFrame : BaseOfFrame[i].col \in WeaponCols

\* a frame composed outside freezetime with a winning team, mvp not set
\* and the map present: the fill of the team's colour
C13_Witness ==
    /\ Composed /\ ~mvp
    /\ IsSome(state.map) /\ IsSome(state.round)
    /\ Unwrap(state.round).phase = "over"
    /\ Unwrap(state.round).win_team = Some("T")
    /\ BaseOfFrame = TeamFill("T")
    /\ \A i \in DOMAIN cols : cols[i] = ColorOf("COLOR_T")

-----------------------------------------------------------------------------
(* The drawing functions alone *)

\* Arguments of the drawing calls: colours inside and outside [0,1],
\* alphas below 0, inside [0,1] and above 1 (2000 is the KnifeKill alpha),
\* line ends before, inside and past the strip, to before from included.
InputColors == {Color(1000, 500, 100), Color(2000, 0 - 500, 250)}
Alphas == {0 - 500, 0, 400, 1000, 2000}
Froms == {0 - 500, 0, 700, 1500}
Tos == {0 - 500, 300, 1500, StripLen * 1000, StripLen * 1000 + 2500}
BlendModes == {"Replace", "Mix", "Add"}
Times == {0, 250, 1700}

\* one call of clear, fill, draw_line or do_rainbow on cols; frame keeps
\* the calls made so far
ClearStep ==
    /\ Len(frame) < MaxLayers
    /\ cols' = clear(cols)
    /\ frame' = Append(frame, [op |-> "clear"])
    /\ UNCHANGED <<state, state_aw, state_lock, poisoned, next_event, queue_lock,
                   hvars, rpc,                   time_now, last_event, kill_event, mvp, knife_start, bytes,
                   wire, clock, appended, drained, ncalls>>

FillStep ==
    /\ Len(frame) < MaxLayers
    /\ \E col \in InputColors, alpha \in Alphas :
          /\ cols' = fill(cols, col, alpha)
          /\ frame' = Append(frame, [op |-> "fill", col |-> col, alpha |-> alpha])
    /\ UNCHANGED <<state, state_aw, state_lock, poisoned, next_event, queue_lock,
                   hvars, rpc,                   time_now, last_event, kill_event, mvp, knife_start, bytes,
                   wire, clock, appended, drained, ncalls>>

DrawLineStep ==
    /\ Len(frame) < MaxLayers
    /\ \E from \in Froms, to \in Tos, col \in InputColors, mode \in BlendModes :
          /\ cols' = draw_line(cols, from, to, col, mode)
          /\ frame' = Append(frame, [op |-> "draw_line", from |-> from, to |-> to,
                                     col |-> col, mode |-> mode])
    /\ UNCHANGED <<state, state_aw, state_lock, poisoned, next_event, queue_lock,
                   hvars, rpc,                   time_now, last_event, kill_event, mvp, knife_start, bytes,
                   wire, clock, appended, drained, ncalls>>

RainbowStep ==
    /\ Len(frame) < MaxLayers
    /\ \E time \in Times, alpha \in Alphas :
          /\ cols' = do_rainbow(cols, time, 1000, alpha)
          /\ frame' = Append(frame, [op |-> "rainbow", time |-> time, alpha |-> alpha])
    /\ UNCHANGED <<state, state_aw, state_lock, poisoned, next_event, queue_lock,
                   hvars, rpc,                   time_now, last_event, kill_event, mvp, knife_start, bytes,
                   wire, clock, appended, drained, ncalls>>

\* cols as do_lights creates it (line 433), before any drawing call
InitColor ==
    /\ state = DefaultGameState
    /\ state_aw = None
    /\ state_lock = "none"
    /\ poisoned = FALSE
    /\ next_event = <<>>
    /\ queue_lock = "none"
    /\ hpc = [h \in Handlers |-> "idle"]
    /\ hbody = [h \in Handlers |-> Malformed]
    /\ haw = [h \in Handlers |-> None]
    /\ htodo = [h \in Handlers |-> <<>>]
    /\ hpanic = [h \in Handlers |-> FALSE]
    /\ hpushed = [h \in Handlers |-> <<>>]
    /\ rpc = "compose"
    /\ time_now = 0
    /\ last_event = None
    /\ kill_event = None
    /\ mvp = FALSE
    /\ knife_start = 0
    /\ frame = <<>>
    /\ cols = [i \in 1..StripLen |-> Color(0, 0, 1000)]
    /\ bytes = <<>>
    /\ wire = <<>>
    /\ clock = 0
    /\ appended = <<>>
    /\ drained = <<>>
    /\ ncalls = 0

NextColor == ClearStep \/ FillStep \/ DrawLineStep \/ RainbowStep

SpecColor == InitColor /\ [][NextColor]_vars

-----------------------------------------------------------------------------
(* C14 *)

InRange(cs) == \A i \in DOMAIN cs : \A ch \in 1..3 : 0 <= cs[i][ch] /\ cs[i][ch] <= 1000

\* C14: after every fill, blend (Replace, Mix, Add), draw_line and rainbow
\* step every channel of every pixel of cols lies in [0,1], whatever the
\* alpha and the magnitude of the colour drawn.
C14_ChannelRange == InRange(cols)

\* a fill with alpha 2 of a colour outside [0,1] has just been made: the
\* channels end at the limits of the range
C14_Witness ==
    /\ frame # <<>>
    /\ frame[Len(frame)] = [op |-> "fill", col |-> Color(2000, 0 - 500, 250),
                            alpha |-> 2000]
    /\ \A i \in DOMAIN cols : cols[i] = Color(1000, 0, 500)

\* a line drawn with to before from inside one pixel: blend is called
\* with a negative alpha
C14_WitnessNegativeAlpha ==
    /\ Len(frame) = 1
    /\ frame[1].op = "draw_line"
    /\ frame[1].from = 700 /\ frame[1].to = 300 /\ frame[1].mode = "Add"
    /\ cols[1] # Color(0, 0, 1000)

-----------------------------------------------------------------------------
(* The encoder alone *)

\* Colours for the encoder: channels below 0, inside [0,1] and above 1,
\* and products with 255 that are no integers (127.5, 63.75, 253.98).
EncodeColors ==
    {Color(0, 0, 0), Color(1000, 500, 0), Color(2000, 0 - 500, 999),
     Color(4, 250, 996), Color(0 - 1, 1001, 500)}

\* the sequences over S of length at most n
RECURSIVE SeqsUpTo(_, _)
SeqsUpTo(S, n) ==
    IF n = 0 THEN {<<>>}
    ELSE LET shorter == SeqsUpTo(S, n - 1)
         IN  shorter \cup {Append(q, x) : q \in shorter, x \in S}

\* the render loop is about to write a frame of up to StripLen colours
InitEncode ==
    /\ state = DefaultGameState
    /\ state_aw = None
    /\ state_lock = "none"
    /\ poisoned = FALSE
    /\ next_event = <<>>
    /\ queue_lock = "none"
    /\ hpc = [h \in Handlers |-> "idle"]
    /\ hbody = [h \in Handlers |-> Malformed]
    /\ haw = [h \in Handlers |-> None]
    /\ htodo = [h \in Handlers |-> <<>>]
    /\ hpanic = [h \in Handlers |-> FALSE]
    /\ hpushed = [h \in Handlers |-> <<>>]
    /\ rpc = "set_pixels"
    /\ time_now = 0
    /\ last_event = None
    /\ kill_event = None
    /\ mvp = FALSE
    /\ knife_start = 0
    /\ frame = <<>>
    /\ cols \in SeqsUpTo(EncodeColors, StripLen)
    /\ bytes = <<>>
    /\ wire = <<>>
    /\ clock = 0
    /\ appended = <<>>
    /\ drained = <<>>
    /\ ncalls = 0

NextEncode == RenderSetPixels \/ RenderShow \/ RenderWriteFail

SpecEncode == InitEncode /\ [][NextEncode]_vars

-----------------------------------------------------------------------------
(* C15 *)

\* round_toward_zero(clamp(channel, 0, 1) * 255)
Sample(channel) == (Clamp01(channel) * 255) \div 1000

ClampColor(c) == Color(Clamp01(c[1]), Clamp01(c[2]), Clamp01(c[3]))

\* the SetPixels of this iteration has been encoded and written
Encoded == rpc = "show"

\* C15: the encoder returns exactly 3N bytes for N colours; bytes 3i,
\* 3i+1, 3i+2 (counted from 0) are the green, red and blue samples of
\* pixel i, each round_toward_zero(clamp(channel,0,1)*255); encoding the
\* frame with every channel clamped first gives the same bytes.
C15_FrameEncoding ==
    Encoded =>
        /\ Len(bytes) = 3 * Len(cols)
        /\ \A i \in DOMAIN cols :
              /\ bytes[3 * (i - 1) + 1] = Sample(cols[i][2])
              /\ bytes[3 * (i - 1) + 2] = Sample(cols[i][1])
              /\ bytes[3 * (i - 1) + 3] = Sample(cols[i][3])
        /\ as_bytes([i \in DOMAIN cols |-> ClampColor(cols[i])]) = bytes

\* two colours with channels outside [0,1] and samples that are truncated
\* have been encoded
C15_Witness ==
    /\ Encoded
    /\ cols = <<Color(2000, 0 - 500, 999), Color(4, 250, 996)>>
    /\ bytes = <<0, 255, 254, 63, 1, 253>>

-----------------------------------------------------------------------------
(* C16 *)

\* C16: a failed write ends the render thread and aborts the frame: once
\* the thread is dead it stays dead and the port receives nothing more (so
\* no Show follows a failed SetPixels); an iteration that runs to its end
\* has written exactly one SetPixels and then one Show; and the port is
\* written by steps of the render thread only.
C16_WriteFailureIsFatal ==
    [][/\ rpc = "dead" => (rpc' = "dead" /\ wire' = wire)
       /\ (rpc \in {"set_pixels", "show"} /\ rpc' = "dead") => wire' = wire
       /\ rpc' \in {"compose", "set_pixels"} => wire' = <<>>
       /\ rpc' = "show" => wire' = <<"SetPixels">>
       /\ (rpc = "show" /\ rpc' = "drain") => wire' = <<"SetPixels", "Show">>
       /\ wire' # wire => (rpc' # rpc /\ UNCHANGED hvars)]_vars

\* the SetPixels write of an iteration has failed: the frame was composed,
\* nothing reached the port and the thread is dead
C16_Witness ==
    /\ rpc = "dead"
    /\ frame # <<>>
    /\ wire = <<>>

-----------------------------------------------------------------------------
(* C17 *)

\* the age past which an event in last_event expires, in milliseconds
ExpiryOf(event) ==
    CASE event = "Shoot" -> 125
      [] event = "Death" -> 4000
      [] event = "Kill" -> 1000

\* last_event is emptied by its own expiry test in this step
OwnExpiry ==
    /\ last_event' = None
    /\ time_now - Unwrap(last_event)[2] > ExpiryOf(Unwrap(last_event)[1])

\* last_event is overwritten by a Shoot, Death or Kill taken from the queue
Overwritten ==
    /\ IsSome(last_event')
    /\ \E i \in DOMAIN next_event : next_event[i] = Unwrap(last_event')[1]
    /\ next_event' = <<>>

\* C17: a Shoot, Death or Kill in last_event leaves the slot only by its
\* own expiry (older than 0.125 s, 4 s, 1 s) or by being overwritten by a
\* newer Shoot, Death or Kill; a KnifeKill in kill_event does not clear it.
C17_LastEventOwnExpiry ==
    [][(IsSome(last_event) /\ last_event' # last_event) => (OwnExpiry \/ Overwritten)]_vars

\* what does hold: the only other way out of the slot is the expiry test
\* of the KnifeKill overlay
C17_LastEventOwnOrKnifeKillExpiry ==
    [][(IsSome(last_event) /\ last_event' # last_event) =>
          \/ OwnExpiry
          \/ Overwritten
          \/ /\ last_event' = None
             /\ IsSome(kill_event)
             /\ time_now - Unwrap(kill_event)[2] > 1000]_vars

-----------------------------------------------------------------------------
(* C18 *)

\* C18: a malformed call affects only itself: no step of it changes
\* whether the GameState mutex can be acquired, so the render thread and
\* later calls go on as before.
C18_MalformedCallIsIsolated ==
    [][\A h \in Handlers :
          (InMalformedCall(h) /\ hpc'[h] # hpc[h]) => poisoned' = poisoned]_vars

\* what does hold: a poisoned mutex stays poisoned, and with it neither a
\* call nor the render thread gets past its lock().unwrap()
C18_PoisonedStoreStaysUnusable ==
    [][poisoned =>
          /\ poisoned'
          /\ state' = state
          /\ \A h \in Handlers : hpc'[h] # hpc[h] => hpc'[h] # "locked"
          /\ rpc' # rpc => rpc' \notin {"set_pixels"}]_vars

-----------------------------------------------------------------------------
(* C19 *)

\* context h is inside the critical section of lines 305-387
InCritical(h) == hpc[h] = "locked"

IsSuffix(s, t) ==
    /\ Len(s) <= Len(t)
    /\ SubSeq(t, Len(t) - Len(s) + 1, Len(t)) = s

\* C19: calls are serialized by the GameState lock: at most one is inside
\* the critical section; while a call is inside, the stored snapshot is
\* the one it installed, its events are those detected against that
\* snapshot, and the events it has pushed are the last ones pushed (no
\* event of another call in between); the snapshot changes only by a call
\* entering the critical section, to the whole snapshot of that call, so
\* after two calls it is the snapshot of the second.
C19_IngestionSerialized ==
    /\ [](\A g, h \in Handlers : (InCritical(g) /\ InCritical(h)) => g = h)
    /\ [](\A h \in Handlers :
            InCritical(h) =>
                /\ state_lock = h
                /\ state = hbody[h].gs
                /\ state_aw = haw[h]
                /\ hpushed[h] \o htodo[h] = detect(state, state_aw).ev
                /\ IsSuffix(hpushed[h], appended))
    /\ [][state' # state =>
             \E h \in Handlers :
                 /\ ~InCritical(h) /\ InCritical(h)'
                 /\ state' = hbody[h].gs]_vars
    /\ [][\A h \in Handlers :
             (InCritical(h) /\ ~InCritical(h)') => state' = hbody[h].gs]_vars

\* two calls with different snapshots have overlapped: the first has left
\* the critical section and not yet returned, the second is inside; the
\* events of the first precede those of the second and the stored
\* snapshot is the second's
C19_Witness ==
    /\ hpc["h1"] = "done" /\ hpc["h2"] = "locked"
    /\ Len(hpushed["h1"]) = 2 /\ Len(hpushed["h2"]) = 1 /\ htodo["h2"] # <<>>
    /\ appended = hpushed["h1"] \o hpushed["h2"]
    /\ state = hbody["h2"].gs
    /\ hbody["h1"] # hbody["h2"]

-----------------------------------------------------------------------------
(* C20 *)

\* C20 as stated: all events of one call are returned by the same drain:
\* no drain returns events while a call has pushed some of its events and
\* has others still to push.
C20_EventsConsumedTogether ==
    [][drained' # drained =>
          \A h \in Handlers :
              (InCritical(h) /\ hpushed[h] # <<>>) => htodo[h] = <<>>]_vars

\* C20 amended: a drain returns the whole queue as it is at that moment;
\* the pushes of a call are separate acquisitions of the queue lock and
\* the drain does not wait for the GameState lock, so a drain may return
\* the first events of a call in progress.  The events a call has pushed
\* are always the last ones of the sequence of drained and queued events,
\* in push order, so the rest of them is returned, in order, by the
\* following drains.
C20_EventsDrainedInPushOrder ==
    /\ [](\A h \in Handlers :
            InCritical(h) => IsSuffix(hpushed[h], drained \o next_event))
    /\ [][drained' # drained =>
             (drained' = drained \o next_event /\ next_event' = <<>>)]_vars

\* a drain has returned the first event of a call that still has an event
\* to push
C20_Witness ==
    \E h \in Handlers :
        /\ InCritical(h)
        /\ Len(hpushed[h]) = 1 /\ Len(htodo[h]) = 1
        /\ next_event = <<>>
    /\ queue_lock = "none"
        /\ IsSuffix(hpushed[h], drained)

-----------------------------------------------------------------------------
(* The two mutexes, step by step *)

\* In Spec an acquisition, what is done under the mutex and the release
\* are one step wherever no other mutex is asked for in between.  Here
\* every lock() and every release of a guard is a step of its own:
\* state_lock and queue_lock name the holder, and a context whose next
\* step is a lock() waits while the mutex is held.  The clock does not
\* advance.
LockBodies ==
    {MvpNewRoundBody, ShootDeathBody, BadClipNewRoundBody, NoClipMaxBody, Malformed}

\* next_event.lock() of a push (lines 319-380), under the GameState guard
QueueLock(h) ==
    /\ hpc[h] = "locked"
    /\ htodo[h] # <<>>
    /\ queue_lock = "none"
    /\ queue_lock' = h
    /\ UNCHANGED <<state, state_aw, state_lock, poisoned, next_event, hvars, rvars,
                   clock, appended, drained, ncalls>>

\* .push(..) and the drop of the temporary guard at the end of the
\* statement
PushUnlock(h) ==
    /\ queue_lock = h
    /\ next_event' = push(next_event, Head(htodo[h]))
    /\ appended' = Append(appended, Head(htodo[h]))
    /\ hpushed' = [hpushed EXCEPT ![h] = Append(@, Head(htodo[h]))]
    /\ htodo' = [htodo EXCEPT ![h] = Tail(@)]
    /\ queue_lock' = "none"
    /\ UNCHANGED <<state, state_aw, state_lock, poisoned, hpc, hbody, haw, hpanic,
                   rvars, clock, drained, ncalls>>

\* lines 439-442: now and time_now are taken, then next_event.lock()
RenderQueueLock ==
    /\ rpc = "drain"
    /\ queue_lock = "none"
    /\ queue_lock' = "render"
    /\ time_now' = clock
    /\ UNCHANGED <<state, state_aw, state_lock, poisoned, next_event, hvars, rpc,
                   last_event, kill_event, mvp, knife_start, frame, cols, bytes,
                   wire, clock, appended, drained, ncalls>>

\* mutant of RenderDrainUnlock: the guard of next_event outlives the loop
RenderDrainKeepLock ==
    /\ rpc = "drain"
    /\ queue_lock = "render"
    /\ LET ov == fold_events([knife_start |-> knife_start, mvp |-> mvp,
                              last_event |-> last_event, kill_event |-> kill_event],
                             drain_result(next_event), time_now)
       IN  /\ knife_start' = ov.knife_start
           /\ mvp' = ov.mvp
           /\ last_event' = ov.last_event
           /\ kill_event' = ov.kill_event
    /\ drained' = drained \o drain_result(next_event)
    /\ next_event' = drain_rest(next_event)
    /\ wire' = <<>>
    /\ rpc' = "compose"
    /\ UNCHANGED <<state, state_aw, state_lock, poisoned, queue_lock, hvars, time_now,
                   frame, cols, bytes, clock, appended, ncalls>>

\* lines 442-453: the for loop over drain(..); the temporary guard is
\* dropped at the end of the for statement
RenderDrainUnlock ==
    /\ rpc = "drain"
    /\ queue_lock = "render"
    /\ LET ov == fold_events([knife_start |-> knife_start, mvp |-> mvp,
                              last_event |-> last_event, kill_event |-> kill_event],
                             drain_result(next_event), time_now)
       IN  /\ knife_start' = ov.knife_start
           /\ mvp' = ov.mvp
           /\ last_event' = ov.last_event
           /\ kill_event' = ov.kill_event
    /\ drained' = drained \o drain_result(next_event)
    /\ next_event' = drain_rest(next_event)
    /\ queue_lock' = "none"
    /\ wire' = <<>>
    /\ rpc' = "compose"
    /\ UNCHANGED <<state, state_aw, state_lock, poisoned, hvars, time_now, frame, cols,
                   bytes, clock, appended, ncalls>>

\* line 456: state.lock().unwrap() on a sound mutex
RenderStateLock ==
    /\ rpc = "compose"
    /\ state_lock = "none"
    /\ ~poisoned
    /\ state_lock' = "render"
    /\ UNCHANGED <<state, state_aw, poisoned, next_event, queue_lock, hvars, rvars,
                   clock, appended, drained, ncalls>>

\* lines 457-569: the frame is composed and the guard dropped at the end
\* of the block
RenderComposeUnlock ==
    /\ rpc = "compose"
    /\ state_lock = "render"
    /\ ~BaseLayer(state, state_aw, mvp, time_now, knife_start).panic
    /\ frame' = <<Layer("clear", "", 0)>>
                  \o BaseLayer(state, state_aw, mvp, time_now, knife_start).ev
                  \o LastEventLayer(last_event, time_now)
                  \o KillEventLayer(kill_event, time_now)
                  \o FlashLayer(state)
    /\ cols' = paint_all(cols, frame', time_now, NumLines(frame'))
    /\ LET slots == KillEventExpiry(
                        [last_event |-> LastEventExpiry(last_event, time_now),
                         kill_event |-> kill_event], time_now)
       IN  /\ last_event' = slots.last_event
           /\ kill_event' = slots.kill_event
    /\ state_lock' = "none"
    /\ rpc' = "set_pixels"
    /\ UNCHANGED <<state, state_aw, poisoned, next_event, queue_lock, hvars,
                   time_now, mvp, knife_start, bytes, wire, clock, appended,
                   drained, ncalls>>

\* line 505: the panic under the guard; the unwinding drops the guard and
\* poisons the mutex
RenderComposePanicUnlock ==
    /\ rpc = "compose"
    /\ state_lock = "render"
    /\ BaseLayer(state, state_aw, mvp, time_now, knife_start).panic
    /\ poisoned' = TRUE
    /\ state_lock' = "none"
    /\ rpc' = "dead"
    /\ UNCHANGED <<state, state_aw, next_event, queue_lock, hvars, time_now,
                   last_event, kill_event, mvp, knife_start, frame, cols, bytes,
                   wire, clock, appended, drained, ncalls>>

NextLocks ==
    \/ \E h \in Handlers :
          \/ Receive(h, LockBodies)
          \/ LockPoisoned(h)
          \/ ParseFail(h)
          \/ Install(h)
          \/ QueueLock(h)
          \/ PushUnlock(h)
          \/ Finish(h)
          \/ Return(h)
    \/ RenderQueueLock
    \/ RenderDrainUnlock
    \/ RenderStateLock
    \/ RenderLockPoisoned
    \/ RenderComposeUnlock
    \/ RenderComposePanicUnlock
    \/ RenderSetPixels
    \/ RenderShow
    \/ RenderWriteFail

SpecLocks == Init /\ [][NextLocks]_vars


Contexts == Handlers \cup {"render"}

\* the next step of context c is state.lock()
WaitsState(c) ==
    IF c = "render" THEN rpc = "compose" /\ state_lock # "render"
    ELSE hpc[c] = "received"

\* the next step of context c is next_event.lock()
WaitsQueue(c) ==
    IF c = "render" THEN rpc = "drain" /\ queue_lock # "render"
    ELSE hpc[c] = "locked" /\ htodo[c] # <<>> /\ queue_lock # c

\* c is stopped in a lock() of a mutex that another context holds
Blocked(c) ==
    \/ WaitsState(c) /\ state_lock # "none"
    \/ WaitsQueue(c) /\ queue_lock # "none"

\* the context that holds the mutex a blocked context c is stopped at
Holder(c) == IF WaitsState(c) THEN state_lock ELSE queue_lock

\* every context of S is blocked at a mutex held inside S
Deadlocked(S) ==
    /\ S # {}
    /\ \A c \in S : Blocked(c) /\ Holder(c) \in S

\* C21: in no reachable state is every context blocked on a lock, nor is
\* any group of contexts blocked on locks held inside the group; a
\* handler holds the lock of the event queue only while it holds the lock
\* of the snapshot; the render loop has released the lock of the queue
\* when it asks for the lock of the snapshot; and the render loop holds
\* neither lock while it writes to the serial port.
C21_DeadlockFreedom ==
    /\ ~(\A c \in Contexts : Blocked(c))
    /\ \A S \in SUBSET Contexts : ~Deadlocked(S)
    /\ \A h \in Handlers : queue_lock = h => state_lock = h
    /\ rpc = "compose" => queue_lock # "render"
    /\ rpc \in {"set_pixels", "show"} =>
          /\ state_lock # "render"
          /\ queue_lock # "render"

\* one handler holds both locks in the middle of a push while the other
\* handler waits for the snapshot and the render loop waits for the queue
C21_Witness ==
    \E h \in Handlers :
       /\ state_lock = h
       /\ queue_lock = h
       /\ \E g \in Handlers \ {h} : Blocked(g)
       /\ Blocked("render")
       /\ ~Blocked(h)

\* the render loop holds the snapshot while a handler waits for it, and
\* the queue is free
C21_WitnessRenderHolds ==
    /\ state_lock = "render"
    /\ queue_lock = "none"
    /\ \A h \in Handlers : Blocked(h)

-----------------------------------------------------------------------------
(* The render loop under fair scheduling, the serial port never failing *)

\* one step of the render thread; no write to the port fails
RenderNext ==
    \/ RenderDrain
    \/ RenderLockPoisoned
    \/ RenderCompose
    \/ RenderComposePanic
    \/ RenderSetPixels
    \/ RenderShow

\* one step of a call between state.lock() and the drop of the guard:
\* lines 306-387 hold no .await, so a call that has the mutex runs on
HandlerNext(h) ==
    \/ Push(h)
    \/ Finish(h)

NextLive ==
    \/ \E h \in Handlers :
          \/ Receive(h, LockBodies)
          \/ LockPoisoned(h)
          \/ ParseFail(h)
          \/ Install(h)
          \/ HandlerNext(h)
          \/ Return(h)
    \/ RenderNext

\* the render loop is a thread of its own that never sleeps (line 438),
\* and a call holding the mutex is not suspended
SpecLive ==
    /\ Init
    /\ [][NextLive]_vars
    /\ WF_vars(RenderNext)
    /\ \A h \in Handlers : WF_vars(HandlerNext(h))

\* C22: with the render loop scheduled fairly and no write to the port
\* failing, every event appended to the queue is eventually drained and
\* folded by a render tick: a drain takes the whole queue, so whenever
\* the queue holds an event it is empty again later.
C22_EventualConsumption ==
    (next_event # <<>>) ~> (next_event = <<>>)

\* C22, as far as the render loop lives: an appended event is drained
\* unless the render thread has ended, and a drain takes every event that
\* was appended before it.
C22_ConsumedWhileRenderLives ==
    /\ (next_event # <<>>) ~> (next_event = <<>> \/ rpc = "dead")
    /\ [][RenderDrain => drained' = appended /\ next_event' = <<>>]_vars

\* C22, the state it excludes: the render thread has ended, no write has
\* failed, and an appended event is left in the queue for good
C22_NoEventStranded ==
    ~(rpc = "dead" /\ next_event # <<>>)

=============================================================================
